---- MODULE Spec2Model ----
(***************************************************************************)
(* Speech-emotion-recognition service (services/emotion/serve.py).         *)
(*                                                                         *)
(* The module models the process-wide state built at import time, the two  *)
(* HTTP routes, the audio normaliser with its ffmpeg fallback, and the      *)
(* label reconciliation of classify_waveform.                              *)
(*                                                                         *)
(* Representation choices                                                  *)
(*   - a label string is a tuple of one-character strings, so that strip,  *)
(*     lower, replace and split act on characters as str does;             *)
(*   - uploaded bytes are <<>> (zero bytes) or <<magic, payload>>: the      *)
(*     container magic and the id of the waveform the container carries    *)
(*     (0 = a container that holds zero samples);                          *)
(*   - a float score is an integer number of 1/Scale steps, NaN apart;     *)
(*   - librosa, ffmpeg, the file system and the torch model are the        *)
(*     environment: deterministic in the bytes they are given, except for  *)
(*     the faults (I/O error, timeout) chosen nondeterministically.        *)
(***************************************************************************)
EXTENDS Integers, Sequences, FiniteSets, TLC

\* ---------------------------------------------------------------- bounds
\* number of output classes of the loaded model
NumLabels == 2
\* score resolution: the float 1.0 is Scale, 0.0 is 0
Scale == 3

\* ------------------------------------------------------- configuration
DEFAULT_EXPECTED_SR == 16000
EMOTIONS == <<"angry", "disgust", "fear", "happy", "neutral", "sad", "surprise">>
EmotionSet == {EMOTIONS[i] : i \in 1..Len(EMOTIONS)}
FFMPEG_TIMEOUT == 20

\* Python None (the result of dict.get on a missing key)
None == "<None>"
\* float('nan'), which softmax yields for non-finite logits
NaN == 0 - 1

\* ------------------------------------------------------ state
VARIABLES
  HAS_FFMPEG,     \* shutil.which("ffmpeg") is not None, evaluated at import
  DEVICE,         \* "cuda" or "cpu", chosen at import
  MODEL_SR,       \* sampling rate the model expects
  MODEL_MEAN,     \* input normalisation mean
  MODEL_STD,      \* input normalisation std
  ID2LABEL,       \* output index (from 0) -> native label
  classifier,     \* the loaded model in eval mode, applied to (audio - mean) / std:
                  \* waveform -> raw output
  pc,             \* position of the request being handled
  raw,            \* bytes of the upload (await file.read())
  audio,          \* waveform returned by load_audio_as_float32 (0: none / zero samples)
  wav_bytes,      \* bytes read back from the transcoder's output file
  exc,            \* exception in flight
  predictions,    \* result of classify_waveform
  calls,          \* external calls made for the current request, in order
  disk,           \* temporary paths of the current request that exist on disk
  response,       \* last HTTP response sent
  host_faults,    \* the host can fail the service: disk errors, transcoder timeouts
  memo            \* one earlier /classify exchange, kept for comparison

globals == <<HAS_FFMPEG, DEVICE, MODEL_SR, MODEL_MEAN, MODEL_STD, ID2LABEL, classifier>>
locals == <<pc, raw, audio, wav_bytes, exc, predictions, calls, disk, response>>
vars == <<globals, locals, host_faults, memo>>

\* ------------------------------------------------------ values
MODEL_ID == "3loi/SER-Odyssey-Baseline-WavLM-Categorical"

NoExc == [type |-> "", msg |-> ""]
Raise(type, msg) == [type |-> type, msg |-> msg]
\* the exception classes the environment and the code raise; all derive from Exception
ExceptionTypes == {"RuntimeError", "OSError", "CalledProcessError", "TimeoutExpired",
                   "LibsndfileError", "TypeError"}

NoResponse == [route |-> "", status |-> 0, error |-> "", content |-> <<>>]
\* memo when nothing is kept yet, and when no exchange is ever kept
NoMemo == [raw |-> <<"none">>, response |-> NoResponse]
Untracked == [raw |-> <<"untracked">>, response |-> NoResponse]

\* native label strings a model vocabulary is drawn from
RawLabels == {
  <<"D","i","s","g","u","s","t">>,
  <<"c","o","n","t","e","m","p","t">>,
  <<" ","S","A","D","_"," ">>,
  <<"O","t","h","e","r">> }

\* the non-empty waveforms uploads carry. One clip: the model's outputs on two
\* clips are independent choices, and no operation relates one clip to another
Waveforms == {1}
\* zero bytes; WAV and WebM containers holding no samples (0) or a clip; bytes
\* that are no audio container
Uploads == {<<>>} \cup {<<"RIFF", w>> : w \in {0} \cup Waveforms}
                  \cup {<<"webm", w>> : w \in {0} \cup Waveforms}
                  \cup {<<"junk", 0>>}

\* softmax over the logits: a distribution over the NumLabels classes, or all NaN
\* when a logit is not finite
RECURSIVE SumTo(_, _)
SumTo(p, n) == IF n = 0 THEN 0 ELSE p[n] + SumTo(p, n - 1)
Distributions ==
  {p \in [1..NumLabels -> 0..Scale] : SumTo(p, NumLabels) = Scale}
    \cup {[i \in 1..NumLabels |-> NaN]}

\* what classifier(waveform, mask) can do: raise, return something that is no
\* tensor, or return logits
ModelOutputs ==
  {[kind |-> "raise", type |-> "", probs |-> <<>>],
   [kind |-> "return", type |-> "NoneType", probs |-> <<>>]}
    \cup {[kind |-> "return", type |-> "Tensor", probs |-> p] : p \in Distributions}

\* ------------------------------------------------------ environment
\* librosa.load(io.BytesIO(b), sr, mono=True): a 1-D array, or an exception
LibrosaLoad(b) ==
  IF Len(b) > 0 /\ b[1] = "RIFF"
    THEN [ok |-> TRUE, samples |-> b[2]]
    ELSE [ok |-> FALSE, samples |-> 0]

\* ffmpeg -y -i src -ar sr -ac 1 -f wav dst: exit status 0 and the WAV it writes
Ffmpeg(b) ==
  IF b[1] \in {"RIFF", "webm"}
    THEN [status |-> 0, out |-> <<"RIFF", b[2]>>]
    ELSE [status |-> 1, out |-> <<>>]

LibrosaError == Raise("LibsndfileError", "Error opening <_io.BytesIO>: Format not recognised.")
CalledProcessError == Raise("CalledProcessError", "Command 'ffmpeg' returned non-zero exit status 1.")
TimeoutExpired == Raise("TimeoutExpired", "Command 'ffmpeg' timed out after 20 seconds")
WriteError == Raise("OSError", "[Errno 28] No space left on device")
ReadError == Raise("OSError", "[Errno 5] Input/output error")

\* ------------------------------------------------------ float helpers
\* Python's < and > on floats: every comparison with NaN is False
Lt(a, b) == a # NaN /\ b # NaN /\ a < b
Gt(a, b) == a # NaN /\ b # NaN /\ a > b
\* builtin min(a, b) / max(a, b): the first argument unless the second beats it
PyMin(a, b) == IF Lt(b, a) THEN b ELSE a
PyMax(a, b) == IF Gt(b, a) THEN b ELSE a

\* ------------------------------------------------------ str helpers
Whitespace == {" ", "\t"}
UpperToLower ==
  ("A" :> "a") @@ ("B" :> "b") @@ ("C" :> "c") @@ ("D" :> "d") @@ ("E" :> "e") @@
  ("F" :> "f") @@ ("G" :> "g") @@ ("H" :> "h") @@ ("I" :> "i") @@ ("J" :> "j") @@
  ("K" :> "k") @@ ("L" :> "l") @@ ("M" :> "m") @@ ("N" :> "n") @@ ("O" :> "o") @@
  ("P" :> "p") @@ ("Q" :> "q") @@ ("R" :> "r") @@ ("S" :> "s") @@ ("T" :> "t") @@
  ("U" :> "u") @@ ("V" :> "v") @@ ("W" :> "w") @@ ("X" :> "x") @@ ("Y" :> "y") @@
  ("Z" :> "z")

RECURSIVE LStrip(_)
LStrip(s) == IF s # <<>> /\ Head(s) \in Whitespace THEN LStrip(Tail(s)) ELSE s

RECURSIVE RStrip(_)
RStrip(s) ==
  IF s # <<>> /\ s[Len(s)] \in Whitespace THEN RStrip(SubSeq(s, 1, Len(s) - 1)) ELSE s

\* str.strip()
Strip(s) == RStrip(LStrip(s))

\* str.lower()
Lower(s) == [i \in 1..Len(s) |-> IF s[i] \in DOMAIN UpperToLower THEN UpperToLower[s[i]] ELSE s[i]]

\* str.replace(old, new) for a one-character old
Replace(s, old, new) == [i \in 1..Len(s) |-> IF s[i] = old THEN new ELSE s[i]]

\* str.split(): the maximal runs of non-whitespace characters
RECURSIVE SplitFrom(_, _, _)
SplitFrom(s, i, cur) ==
  IF i > Len(s)
    THEN (IF cur = <<>> THEN <<>> ELSE <<cur>>)
    ELSE IF s[i] \in Whitespace
      THEN (IF cur = <<>> THEN <<>> ELSE <<cur>>) \o SplitFrom(s, i + 1, <<>>)
      ELSE SplitFrom(s, i + 1, Append(cur, s[i]))
Split(s) == SplitFrom(s, 1, <<>>)

\* " ".join(words)
RECURSIVE Join(_)
Join(words) ==
  IF words = <<>> THEN <<>>
  ELSE IF Len(words) = 1 THEN words[1]
  ELSE words[1] \o <<" ">> \o Join(Tail(words))

\* str(index) for a non-negative int
Digits == <<"0", "1", "2", "3", "4", "5", "6", "7", "8", "9">>
RECURSIVE Str(_)
Str(n) == IF n < 10 THEN <<Digits[n + 1]>> ELSE Str(n \div 10) \o <<Digits[(n % 10) + 1]>>

\* ------------------------------------------------------ _normalize_label
mapping ==
  (<<"a","n","g","r","y">> :> "angry") @@
  (<<"a","n","g","e","r">> :> "angry") @@
  (<<"a","n","g">> :> "angry") @@
  (<<"h","a","p","p","y">> :> "happy") @@
  (<<"h","a","p","p","i","n","e","s","s">> :> "happy") @@
  (<<"j","o","y">> :> "happy") @@
  (<<"h","a","p">> :> "happy") @@
  (<<"n","e","u","t","r","a","l">> :> "neutral") @@
  (<<"n","e","u">> :> "neutral") @@
  (<<"s","a","d">> :> "sad") @@
  (<<"s","a","d","n","e","s","s">> :> "sad") @@
  (<<"f","e","a","r">> :> "fear") @@
  (<<"f","e","a","r","f","u","l">> :> "fear") @@
  (<<"d","i","s","g","u","s","t">> :> "disgust") @@
  (<<"d","i","s","g","u","s","t","e","d">> :> "disgust") @@
  (<<"d","i","s">> :> "disgust") @@
  (<<"s","u","r","p","r","i","s","e">> :> "surprise") @@
  (<<"s","u","r","p","r","i","s","e","d">> :> "surprise") @@
  (<<"s","u","r">> :> "surprise") @@
  (<<"c","o","n","t","e","m","p","t">> :> "disgust")

\* mapping.get(value)
MappingGet(value) == IF value \in DOMAIN mapping THEN mapping[value] ELSE None

\* " ".join(raw.strip().lower().replace("_", " ").replace("-", " ").split())
NormalizeValue(raw_label) ==
  Join(Split(Replace(Replace(Lower(Strip(raw_label)), "_", " "), "-", " ")))

\* a lookup with a default: mapping.get(value, "neutral")
NormalizeLabelDefaultNeutral(raw_label) ==
  IF NormalizeValue(raw_label) \in DOMAIN mapping
    THEN mapping[NormalizeValue(raw_label)]
    ELSE "neutral"

_normalize_label(raw_label) == MappingGet(NormalizeValue(raw_label))

\* ------------------------------------------------------ _extract_logits
UnexpectedOutput == Raise("RuntimeError", "Unexpected model output type: <class 'NoneType'>")
ModelRaised == Raise("RuntimeError", "CUDA error: out of memory")

\* the tensor found in the model's return value; probs is its softmax
_extract_logits(output) ==
  IF output.type \in {"ModelOutput", "tuple", "Tensor"}
    THEN [exc |-> NoExc, probs |-> output.probs]
    ELSE [exc |-> UnexpectedOutput, probs |-> <<>>]

\* ------------------------------------------------------ classify_waveform
\* float(max(0.0, min(1.0, raw_score)))
Clamp(raw_score) == PyMax(0, PyMin(Scale, raw_score))

\* adding up the scores that fold into one canonical label
MergeScoreSum(old, clamped) == old + clamped

\* max(mapped_scores[normalized_label], clamped)
MergeScore(old, clamped) == PyMax(old, clamped)

\* ID2LABEL.get(index, str(index))
RawLabel(index) == IF index \in DOMAIN ID2LABEL THEN ID2LABEL[index] ELSE Str(index)

\* the loop over enumerate(probabilities.tolist()), from position index on
RECURSIVE MergeLoop(_, _, _)
MergeLoop(probs, index, mapped_scores) ==
  IF index >= Len(probs) THEN mapped_scores
  ELSE LET normalized_label == _normalize_label(RawLabel(index))
       IN  IF normalized_label = None
             THEN MergeLoop(probs, index + 1, mapped_scores)
             ELSE MergeLoop(probs, index + 1,
                    [mapped_scores EXCEPT
                       ![normalized_label] = MergeScore(@, Clamp(probs[index + 1]))])

MappedScores(probs) == MergeLoop(probs, 0, [emotion \in EmotionSet |-> 0])

\* mapped_scores.items(), in insertion order
Items(mapped_scores) ==
  [i \in 1..Len(EMOTIONS) |-> [label |-> EMOTIONS[i], score |-> mapped_scores[EMOTIONS[i]]]]

\* max(mapped_scores.values())
RECURSIVE MaxFrom(_, _, _)
MaxFrom(items, i, best) ==
  IF i > Len(items) THEN best ELSE MaxFrom(items, i + 1, PyMax(best, items[i].score))
Highest(mapped_scores) ==
  LET items == Items(mapped_scores) IN MaxFrom(items, 2, items[1].score)

\* a check that lets an all-zero result through
NoValidLabelStrict(highest) == highest < 0

\* highest <= 0
NoValidLabel(highest) == highest <= 0

\* sorted(items, key=lambda item: item[1], reverse=True): stable, descending
RECURSIVE InsertDesc(_, _)
InsertDesc(sorted, item) ==
  IF sorted = <<>> THEN <<item>>
  ELSE IF Head(sorted).score >= item.score
    THEN <<Head(sorted)>> \o InsertDesc(Tail(sorted), item)
    ELSE <<item>> \o sorted

RECURSIVE SortFrom(_, _, _)
SortFrom(items, i, sorted) ==
  IF i > Len(items) THEN sorted ELSE SortFrom(items, i + 1, InsertDesc(sorted, items[i]))

\* the items left in dictionary order
SortedItemsUnsorted(items) == items

SortedItems(items) == SortFrom(items, 1, <<>>)

PositiveScore(item) == item.score > 0

\* the list comprehension: the sorted items whose score is > 0
Predictions(mapped_scores) == SelectSeq(SortedItems(Items(mapped_scores)), PositiveScore)

EmptyWaveform == Raise("RuntimeError", "Audio waveform is empty or invalid.")
NoValidEmotion == Raise("RuntimeError", "No valid emotion label returned by classifier.")

\* classify_waveform(a): the exception it raises or the predictions it returns,
\* and whether the model was invoked
classify_waveform(a) ==
  IF a = 0 THEN [exc |-> EmptyWaveform, predictions |-> <<>>, invoked |-> FALSE]
  ELSE LET raw_output == classifier[a] IN
    IF raw_output.kind = "raise"
      THEN [exc |-> ModelRaised, predictions |-> <<>>, invoked |-> TRUE]
    ELSE LET logits == _extract_logits(raw_output) IN
      IF logits.exc # NoExc
        THEN [exc |-> logits.exc, predictions |-> <<>>, invoked |-> TRUE]
      ELSE LET mapped_scores == MappedScores(logits.probs) IN
        IF NoValidLabel(Highest(mapped_scores))
          THEN [exc |-> NoValidEmotion, predictions |-> <<>>, invoked |-> TRUE]
          ELSE [exc |-> NoExc, predictions |-> Predictions(mapped_scores), invoked |-> TRUE]

\* ------------------------------------------------------ HTTP helpers
JSONResponse(status, error, content) ==
  [route |-> "/classify", status |-> status, error |-> error, content |-> content]

\* an except clause that names RuntimeError only
CaughtRuntimeErrorOnly(e) == e.type = "RuntimeError"

\* except Exception
Caught(e) == e.type \in ExceptionTypes

\* a test for a missing upload instead of an empty one
IsEmptyUploadNever(b) == FALSE

\* not raw
IsEmptyUpload(b) == Len(b) = 0

\* the transcoder is tried whether or not it was found at startup
TranscoderAvailableAlways == TRUE

\* HAS_FFMPEG, as load_audio_as_float32 reads it
TranscoderAvailable == HAS_FFMPEG

\* any array librosa returns is accepted
PrimaryAcceptsAnySize(r) == r.ok

\* the primary decode did not raise and normalized.size > 0
PrimaryAccepts(r) == r.ok /\ r.samples > 0

\* ------------------------------------------------------ initial state
\* the module-level code: ffmpeg lookup, device choice, model load, config read
Startup ==
  /\ HAS_FFMPEG \in BOOLEAN
  /\ DEVICE \in {"cuda", "cpu"}
  /\ MODEL_SR = DEFAULT_EXPECTED_SR
  /\ MODEL_MEAN = 0
  /\ MODEL_STD = 1
  /\ ID2LABEL \in UNION {[D -> RawLabels] : D \in SUBSET (0..(NumLabels - 1))}
  /\ classifier \in [Waveforms -> ModelOutputs]
  /\ pc = "idle"
  /\ raw = <<>>
  /\ audio = 0
  /\ wav_bytes = <<>>
  /\ exc = NoExc
  /\ predictions = <<>>
  /\ calls = <<>>
  /\ disk = {}
  /\ response = NoResponse

\* a host whose disk and transcoder can fail at any time
Init ==
  /\ Startup
  /\ host_faults = TRUE
  /\ memo = Untracked

\* a CPU-only host that does not fail, with one earlier exchange kept for
\* comparison
InitIdem ==
  /\ Startup
  /\ DEVICE = "cpu"
  /\ host_faults = FALSE
  /\ memo = NoMemo

\* ------------------------------------------------------ GET /health
Health ==
  /\ pc = "idle"
  /\ response' = [route |-> "/health", status |-> 200, error |-> "",
                  content |-> <<[status |-> "ok", model |-> MODEL_ID,
                                 device |-> DEVICE, sampleRate |-> MODEL_SR]>>]
  /\ UNCHANGED <<globals, pc, raw, audio, wav_bytes, exc, predictions, calls, disk,
                 host_faults, memo>>

\* ------------------------------------------------------ POST /classify
\* raw = await file.read(); the request's locals start afresh. The exchange just
\* completed may be kept in memo, once
PostClassify ==
  /\ pc = "idle"
  /\ \E b \in Uploads : raw' = b
  /\ pc' = "ingress"
  /\ audio' = 0
  /\ wav_bytes' = <<>>
  /\ exc' = NoExc
  /\ predictions' = <<>>
  /\ calls' = <<>>
  /\ disk' = {}
  /\ response' = NoResponse
  /\ memo' \in (IF memo = NoMemo /\ response.route = "/classify"
                  THEN {memo, [raw |-> raw, response |-> response]}
                  ELSE {memo})
  /\ UNCHANGED <<globals, host_faults>>

\* if not raw: return JSONResponse({"error": "Empty audio file."}, status_code=400)
RejectEmpty ==
  /\ pc = "ingress"
  /\ IsEmptyUpload(raw)
  /\ response' = JSONResponse(400, "Empty audio file.", <<>>)
  /\ pc' = "idle"
  /\ UNCHANGED <<globals, raw, audio, wav_bytes, exc, predictions, calls, disk,
                 host_faults, memo>>

\* load_audio_as_float32: the try block around the first librosa.load
PrimaryDecode ==
  /\ pc = "ingress"
  /\ ~IsEmptyUpload(raw)
  /\ calls' = Append(calls, "librosa.load")
  /\ LET r == LibrosaLoad(raw) IN
       IF PrimaryAccepts(r)
         THEN audio' = r.samples /\ pc' = "classify"
         ELSE audio' = audio /\ pc' = "fallback"
  /\ UNCHANGED <<globals, raw, wav_bytes, exc, predictions, disk, response,
                 host_faults, memo>>

\* if not HAS_FFMPEG: raise RuntimeError(...)
NoTranscoder ==
  /\ pc = "fallback"
  /\ ~TranscoderAvailable
  /\ exc' = Raise("RuntimeError", "Audio decode failed and ffmpeg is not installed.")
  /\ pc' = "except"
  /\ UNCHANGED <<globals, raw, audio, wav_bytes, predictions, calls, disk, response,
                 host_faults, memo>>

\* _convert_to_wav_via_ffmpeg: NamedTemporaryFile(suffix=".input", delete=False)
\* and src.write(raw_bytes), which run before the try statement
CreateTemp ==
  /\ pc = "fallback"
  /\ TranscoderAvailable
  /\ \/ /\ disk' = disk \cup {"src"}
        /\ pc' = "ffmpeg"
        /\ UNCHANGED exc
     \/ \* the write fails: the with block closes the file and the error propagates
        /\ host_faults
        /\ disk' = disk \cup {"src"}
        /\ exc' = WriteError
        /\ pc' = "except"
     \/ \* the file cannot be created
        /\ host_faults
        /\ disk' = disk
        /\ exc' = WriteError
        /\ pc' = "except"
  /\ UNCHANGED <<globals, raw, audio, wav_bytes, predictions, calls, response,
                 host_faults, memo>>

\* subprocess.run([...], capture_output=True, timeout=20, check=True)
FfmpegStep ==
  /\ pc = "ffmpeg"
  /\ calls' = Append(calls, "ffmpeg")
  /\ \/ /\ Ffmpeg(raw).status = 0
        /\ disk' = disk \cup {"wav"}
        /\ pc' = "read_wav"
        /\ UNCHANGED exc
     \/ \* check=True: a non-zero exit raises; no output file was written
        /\ Ffmpeg(raw).status # 0
        /\ exc' = CalledProcessError
        /\ pc' = "finally"
        /\ UNCHANGED disk
     \/ \* the process is killed after FFMPEG_TIMEOUT seconds, its output half written
        /\ host_faults
        /\ exc' = TimeoutExpired
        /\ disk' = disk \cup {"wav"}
        /\ pc' = "finally"
  /\ UNCHANGED <<raw, audio, wav_bytes, predictions, response, host_faults, memo>>

\* a run that gives up on the transcoder for good once it has failed
RunFfmpegLatching ==
  /\ FfmpegStep
  /\ HAS_FFMPEG' = (exc' = NoExc)
  /\ UNCHANGED <<DEVICE, MODEL_SR, MODEL_MEAN, MODEL_STD, ID2LABEL, classifier>>

RunFfmpeg ==
  /\ FfmpegStep
  /\ UNCHANGED globals

\* with open(wav_path, "rb") as wav_file: return wav_file.read()
ReadWav ==
  /\ pc = "read_wav"
  /\ \/ /\ wav_bytes' = Ffmpeg(raw).out
        /\ UNCHANGED exc
     \/ \* the file holds less than a WAV header
        /\ host_faults
        /\ wav_bytes' = <<"RIF", 0>>
        /\ UNCHANGED exc
     \/ /\ host_faults
        /\ exc' = ReadError
        /\ UNCHANGED wav_bytes
  /\ pc' = "finally"
  /\ UNCHANGED <<globals, raw, audio, predictions, calls, disk, response,
                 host_faults, memo>>

\* finally: os.unlink each of (src_path, wav_path), OSError ignored. A path that
\* does not exist raises FileNotFoundError; on a failing host the unlink of an
\* existing path can raise too, and the path stays
Finally ==
  /\ pc = "finally"
  /\ \E removed \in SUBSET disk :
       /\ removed # disk => host_faults
       /\ disk' = disk \ removed
  /\ pc' = IF exc = NoExc THEN "redecode" ELSE "except"
  /\ UNCHANGED <<globals, raw, audio, wav_bytes, exc, predictions, calls, response,
                 host_faults, memo>>

\* the second librosa.load, on the transcoded bytes, outside any try
Redecode ==
  /\ pc = "redecode"
  /\ calls' = Append(calls, "librosa.load")
  /\ LET r == LibrosaLoad(wav_bytes) IN
       IF ~r.ok
         THEN exc' = LibrosaError /\ pc' = "except" /\ audio' = audio
       ELSE IF r.samples = 0
         THEN exc' = Raise("RuntimeError", "Decoded audio is empty.")
              /\ pc' = "except" /\ audio' = audio
         ELSE exc' = exc /\ pc' = "classify" /\ audio' = r.samples
  /\ UNCHANGED <<globals, raw, wav_bytes, predictions, disk, response, host_faults, memo>>

\* predictions = classify_waveform(audio)
Classify ==
  /\ pc = "classify"
  /\ LET result == classify_waveform(audio) IN
       /\ calls' = IF result.invoked THEN Append(calls, "classifier") ELSE calls
       /\ exc' = result.exc
       /\ predictions' = result.predictions
       /\ pc' = IF result.exc = NoExc THEN "respond" ELSE "except"
  /\ UNCHANGED <<globals, raw, audio, wav_bytes, disk, response, host_faults, memo>>

\* except Exception as exc: return JSONResponse({"error": ...}, status_code=422);
\* an exception the clause does not catch becomes the server's 500
Respond422 ==
  /\ pc = "except"
  /\ response' = IF Caught(exc)
                   THEN JSONResponse(422, "Could not classify audio: " \o exc.msg, <<>>)
                   ELSE JSONResponse(500, "Internal Server Error", <<>>)
  /\ pc' = "idle"
  /\ UNCHANGED <<globals, raw, audio, wav_bytes, exc, predictions, calls, disk,
                 host_faults, memo>>

\* return JSONResponse(content=[predictions])
Respond200 ==
  /\ pc = "respond"
  /\ response' = JSONResponse(200, "", <<predictions>>)
  /\ pc' = "idle"
  /\ UNCHANGED <<globals, raw, audio, wav_bytes, exc, predictions, calls, disk,
                 host_faults, memo>>

Next ==
  \/ Health
  \/ PostClassify
  \/ RejectEmpty
  \/ PrimaryDecode
  \/ NoTranscoder
  \/ CreateTemp
  \/ RunFfmpeg
  \/ ReadWav
  \/ Finally
  \/ Redecode
  \/ Classify
  \/ Respond422
  \/ Respond200

\* the service on a host that can fail
Spec == Init /\ [][Next]_vars

\* the service on a CPU-only host that does not fail, an earlier exchange remembered
SpecIdem == InitIdem /\ [][Next]_vars

\* ------------------------------------------------------ vocabulary of the claims
\* a POST /classify request has been answered and its locals are still in place
Answered == pc = "idle" /\ response.route = "/classify"

\* classify_waveform has just returned predictions to classify
Returned == pc = "respond"

\* the model was invoked for the current request and returned a tensor
Inferred ==
  /\ calls # <<>>
  /\ calls[Len(calls)] = "classifier"
  /\ classifier[audio].kind = "return"
  /\ classifier[audio].type = "Tensor"

\* the softmax scores of the current request's inference
Probabilities == classifier[audio].probs

Indices == 0..(NumLabels - 1)

\* the native label of output index is in the synonym table, once cleaned up
Recognized(index) == NormalizeValue(RawLabel(index)) \in DOMAIN mapping

\* the output indices whose native label folds into a canonical label
Folding(label) == {index \in Indices : Recognized(index) /\ mapping[NormalizeValue(RawLabel(index))] = label}

SetMax(S) == CHOOSE m \in S : \A x \in S : x <= m

Labels(preds) == {preds[k].label : k \in 1..Len(preds)}

\* ------------------------------------------------------ C1
\* C1: a POST /classify whose body is zero bytes long is answered 400 with the
\* error "Empty audio file.", and for that request no decode, no transcoder run
\* and no inference is ever made: it never leaves the ingress check.
C1_EmptyUploadRejected ==
  Len(raw) = 0 =>
    /\ calls = <<>>
    /\ disk = {}
    /\ pc \in {"idle", "ingress"}
    /\ Answered => response = JSONResponse(400, "Empty audio file.", <<>>)

C1_Witness == Answered /\ Len(raw) = 0 /\ response.status = 400

\* ------------------------------------------------------ C2
\* C2: a POST /classify with a non-empty body in which anything raised (decode,
\* transcoder, re-decode, inference, reconciliation) is answered 422 with the
\* exception's message in the error; it is answered 200 only when nothing was
\* raised, a decode returned a waveform and the classification returned.
C2_FailuresAnswered422 ==
  (Answered /\ Len(raw) > 0) =>
    IF exc # NoExc
      THEN /\ response.status = 422
           /\ response.error = "Could not classify audio: " \o exc.msg
           /\ response.content = <<>>
      ELSE /\ response.status = 200
           /\ audio \in Waveforms
           /\ calls[Len(calls)] = "classifier"
           /\ response.content = <<predictions>>

C2_Witness ==
  /\ Answered
  /\ exc = TimeoutExpired
  /\ response.status = 422
  /\ response.error = "Could not classify audio: Command 'ffmpeg' timed out after 20 seconds"

\* ------------------------------------------------------ C3
\* C3: whatever the model's vocabulary, every label classify_waveform returns is
\* one of the seven canonical labels, no label is returned twice, and an output
\* whose native label is not in the synonym table changes nothing: the result is
\* the one obtained with that output's score set to zero.
C3_ZeroUnrecognized ==
  [i \in 1..NumLabels |-> IF Recognized(i - 1) THEN Probabilities[i] ELSE 0]

C3_ClosedVocabulary ==
  Returned =>
    /\ Labels(predictions) \subseteq EmotionSet
    /\ Cardinality(Labels(predictions)) = Len(predictions)
    /\ \A label \in Labels(predictions) : Folding(label) # {}
    /\ predictions = Predictions(MappedScores(C3_ZeroUnrecognized))

\* an output index without an id2label entry carries a positive score
C3_Witness ==
  /\ Returned
  /\ predictions # <<>>
  /\ \E i \in Indices :
       ~Recognized(i) /\ i \notin DOMAIN ID2LABEL /\ Probabilities[i + 1] > 0

\* ------------------------------------------------------ C4
\* C4: the score returned for a canonical label is the greatest of the clamped
\* scores of the outputs that fold into it, never their sum, and lies in [0, 1].
C4_ScoreIsMaximum ==
  Returned =>
    \A k \in 1..Len(predictions) :
      LET folded == {Clamp(Probabilities[i + 1]) : i \in Folding(predictions[k].label)}
      IN  /\ folded # {}
          /\ predictions[k].score = SetMax(folded)
          /\ predictions[k].score >= 0
          /\ predictions[k].score <= Scale

C4_Witness ==
  /\ Returned
  /\ \E i, j \in Folding("disgust") :
       /\ RawLabel(i) # RawLabel(j)
       /\ Probabilities[i + 1] > 0
       /\ Probabilities[j + 1] > Probabilities[i + 1]
  /\ Len(predictions) = 1

\* ------------------------------------------------------ C5
\* C5: the list classify_waveform returns, and so the list inside a 200 body, is
\* in non-increasing order of score.
C5_NonIncreasing(preds) ==
  \A k \in 1..(Len(preds) - 1) : preds[k].score >= preds[k + 1].score

C5_SortedDescending ==
  /\ Returned => C5_NonIncreasing(predictions)
  /\ (Answered /\ response.status = 200) => C5_NonIncreasing(response.content[1])

\* disgust precedes sad in EMOTIONS and scores less: the sort has to move it
C5_Witness ==
  /\ Answered
  /\ response.status = 200
  /\ Len(predictions) = 2
  /\ predictions[1].label = "sad"
  /\ predictions[2].label = "disgust"
  /\ predictions[1].score > predictions[2].score

\* ------------------------------------------------------ C6
\* C6: once _convert_to_wav_via_ffmpeg has returned or raised, for whatever
\* reason, neither of the two temporary files it created is left on disk.
C6_TempFilesDeleted == pc \notin {"ffmpeg", "read_wav", "finally"} => disk = {}

C8_Traces ==
  {<<>>,
   <<"librosa.load">>,
   <<"librosa.load", "classifier">>,
   <<"librosa.load", "ffmpeg">>,
   <<"librosa.load", "ffmpeg", "librosa.load">>,
   <<"librosa.load", "ffmpeg", "librosa.load", "classifier">>}

C9_PrimaryEmpty == Len(raw) > 0 /\ LibrosaLoad(raw).ok /\ LibrosaLoad(raw).samples = 0

C9_ZeroSamplesRejected ==
  /\ pc \in {"classify", "respond"} => audio \in Waveforms
  /\ (calls # <<>> /\ calls[Len(calls)] = "classifier") => audio \in Waveforms
  /\ (C9_PrimaryEmpty /\ pc \in {"except", "idle"} /\ ~HAS_FFMPEG) =>
       /\ exc = Raise("RuntimeError", "Audio decode failed and ffmpeg is not installed.")
       /\ calls = <<"librosa.load">>
  /\ (C9_PrimaryEmpty /\ pc \in {"except", "idle"} /\ HAS_FFMPEG) =>
       \/ Len(calls) >= 2 /\ calls[2] = "ffmpeg"
       \/ exc = WriteError
  /\ (pc \in {"except", "idle"} /\ Len(calls) = 3
        /\ LibrosaLoad(wav_bytes).ok /\ LibrosaLoad(wav_bytes).samples = 0) =>
       exc = Raise("RuntimeError", "Decoded audio is empty.")

C9_Witness ==
  /\ Answered
  /\ C9_PrimaryEmpty
  /\ calls = <<"librosa.load", "ffmpeg", "librosa.load">>
  /\ exc.msg = "Decoded audio is empty."
  /\ response.status = 422

\* ------------------------------------------------------ C10
\* C10: when no canonical label gets a score above zero, classify_waveform
\* raises and the request is answered 422; so a 200 body is one array holding
\* one non-empty array whose entries all have a score above zero.
C10_NoPositiveScore ==
  \A i \in Indices : Recognized(i) => Clamp(Probabilities[i + 1]) = 0

C10_AllZeroIsFailure ==
  /\ (Inferred /\ C10_NoPositiveScore /\ pc \in {"except", "respond", "idle"}) =>
       /\ exc = NoValidEmotion
       /\ Answered => response.status = 422
  /\ (Answered /\ response.status = 200) =>
       /\ Len(response.content) = 1
       /\ Len(response.content[1]) > 0
       /\ \A k \in 1..Len(response.content[1]) : response.content[1][k].score > 0

\* a recognised label is there, and its score is zero
C10_Witness ==
  /\ Answered
  /\ Inferred
  /\ C10_NoPositiveScore
  /\ \E i \in Indices : Recognized(i)
  /\ response.status = 422
  /\ response.error = "Could not classify audio: No valid emotion label returned by classifier."

====
